---- MODULE Spec2Model ----
(***************************************************************************)
(* A model of scripts/analyze.py: the snapshot-and-delta pipeline that     *)
(* analyze_framework drives (mirror setup, semi-annual schedule, snapshot  *)
(* pass, current-HEAD sample, bounded recent-commit scan, report), the     *)
(* per-commit delta computation, and the parser of the recent-commit log.  *)
(*                                                                         *)
(* Four specifications share the module:                                   *)
(*   Spec       analyze_framework from its first line to the report        *)
(*   SpecScan   analyze_recent_commits, one loop iteration per step, then  *)
(*              the tail of analyze_framework up to the report             *)
(*   SpecDelta  analyze_commit_delta on one commit, one statement per step *)
(*   SpecLog    get_recent_commits, one line of the log per step           *)
(***************************************************************************)
EXTENDS Integers, Sequences, FiniteSets, TLC

VARIABLES
  \* ---- analyze_framework
  pc,               \* position in analyze_framework
  framework,        \* key of FRAMEWORKS
  php_script_exists,\* php_script.exists() at line 480
  repo_exists,      \* repo_dir.exists()
  vc_calls,         \* history: the git invocations setup_repo made, with exit codes
  today,            \* datetime.now() of line 490
  target,           \* loop variable of lines 491-499
  snapshot_dates,   \* list built at lines 492-499
  i,                \* enumerate index of line 505
  snapshots,        \* list built at lines 504-531
  current_date,     \* label computed at line 524 ("none" before)
  head_appended,    \* history: line 531 was executed
  work_exists,      \* output/work exists
  commits,          \* result of analyze_recent_commits (line 539)
  counts_done,      \* number of aggregations done (lines 545, 548)
  report,           \* history: the documents written to data_file
  events,           \* history: the phases completed, in order
  \* ---- analyze_recent_commits
  scan_pc,          \* position in analyze_recent_commits
  window,           \* the list get_recent_commits returned
  target_count,     \* parameter target_count
  idx,              \* position of the for loop of line 394 in window
  results,          \* list built at lines 389-407
  analysed,         \* history: hashes handed to analyze_commit_delta, in order
  commit_work_exists,\* output/commit_work exists
  \* ---- analyze_commit_delta
  d_pc,             \* position in analyze_commit_delta
  d_commit,         \* the commit analysed
  d_script_exists,  \* php_script.exists() at line 332
  d_exts,           \* php_extensions
  changed_files,    \* result of get_changed_files (line 328)
  parent_dir,       \* work_dir/parent
  commit_dir,       \* work_dir/commit
  parent_out,       \* history: what the analyzer did on the parent side
  commit_out,       \* history: what the analyzer did on the commit side
  parent_metrics,   \* line 364
  commit_metrics,   \* line 370
  delta,            \* the value returned
  php_calls,        \* history: directories the analyzer was invoked on
  \* ---- get_recent_commits
  log_pc,           \* position in get_recent_commits
  git_log,          \* the commits git log lists, newest first
  stdout_lines,     \* the lines of stdout (line 229)
  ln,               \* position of the for loop of line 229
  current_hash,     \* lines 225, 234, 259
  current_msg,      \* lines 226, 236
  current_dt,       \* lines 227, 235
  parsed,           \* list built at lines 224-258
  returned          \* the value returned (line 264)

pipeVars == <<pc, framework, php_script_exists, repo_exists, vc_calls, today,
              target, snapshot_dates, i, snapshots, current_date, head_appended,
              work_exists, commits, counts_done, report, events>>
scanVars == <<scan_pc, window, target_count, idx, results, analysed,
              commit_work_exists>>
deltaVars == <<d_pc, d_commit, d_script_exists, d_exts, changed_files, parent_dir,
               commit_dir, parent_out, commit_out, parent_metrics, commit_metrics,
               delta, php_calls>>
logVars == <<log_pc, git_log, stdout_lines, ln, current_hash, current_msg,
             current_dt, parsed, returned>>
vars == <<pipeVars, scanVars, deltaVars, logVars>>

(***************************************************************************)
(* Bounds of the model.                                                    *)
(***************************************************************************)
\* years of "now" after the anchor year that the model covers
MaxSpanYears == 1
\* longest window of recent commits scanned step by step
MaxCommits == 2
\* largest target_count drawn
MaxTarget == 2
\* most commits in a parsed log
MaxLogCommits == 3
\* most inserted (deleted) lines of a shortstat line
MaxLines == 1
\* most files a commit touches
MaxFiles == 1

(***************************************************************************)
(* Generic helpers.                                                        *)
(***************************************************************************)
\* dict.get(k, dflt) on a dict modelled as a function
Get(d, k, dflt) == IF k \in DOMAIN d THEN d[k] ELSE dflt

Last(s) == s[Len(s)]

(***************************************************************************)
(* FRAMEWORKS (lines 21-38).                                               *)
(***************************************************************************)
FRAMEWORKS ==
  [drupal |-> [name |-> "Drupal",
               start_date |-> [year |-> 2011, month |-> 1, day |-> 1],
               core_subdir |-> "core",
               php_extensions |-> {".php", ".module", ".inc", ".install",
                                   ".theme", ".profile", ".engine"}],
   typo3  |-> [name |-> "TYPO3",
               start_date |-> [year |-> 2016, month |-> 1, day |-> 1],
               core_subdir |-> "typo3/sysext",
               php_extensions |-> {".php"}]]

(***************************************************************************)
(* Dates: a datetime is [year, month, day]; every datetime the schedule    *)
(* builds is at midnight, so <= on datetimes is <= on the calendar date.   *)
(***************************************************************************)
DateLeq(a, b) ==
  \/ a.year < b.year
  \/ a.year = b.year /\ a.month < b.month
  \/ a.year = b.year /\ a.month = b.month /\ a.day <= b.day

\* strftime("%Y-%m"): the label keeps year and month and drops the day
YearMonth(d) == [year |-> d.year, month |-> d.month]

\* comparison of two "%Y-%m" strings of four-digit years
LabelLess(a, b) == a.year < b.year \/ (a.year = b.year /\ a.month < b.month)

\* config["start_date"].replace(day=1, month=1), line 491
Anchor(start_date) == [start_date EXCEPT !.day = 1, !.month = 1]

NextTarget_noRollover(t) ==
  LET new_month == t.month + 6
  IN  IF new_month > 12 THEN [t EXCEPT !.month = new_month - 12]
      ELSE [t EXCEPT !.month = new_month]

\* lines 495-499: six calendar months later
NextTarget(t) ==
  LET new_month == t.month + 6
  IN  IF new_month > 12
      THEN [t EXCEPT !.year = t.year + 1, !.month = new_month - 12]
      ELSE [t EXCEPT !.month = new_month]

(***************************************************************************)
(* setup_repo (lines 77-94). codes gives the exit code each git command    *)
(* would end with; the result is the value returned and the calls made.    *)
(***************************************************************************)
ExitCodes == {0, 1}
VcCodes == [fetch : ExitCodes, symbolic_ref : ExitCodes, update_ref : ExitCodes,
            clone : ExitCodes]

Call(cmd, code) == [cmd |-> cmd, code |-> code]

setup_repo_ignoreFetch(exists, codes) ==
  IF exists
  THEN [ok |-> TRUE,
        calls |-> <<Call("fetch", codes.fetch)>>
                  \o <<Call("symbolic-ref", codes.symbolic_ref)>>
                  \o (IF codes.symbolic_ref = 0
                      THEN <<Call("update-ref", codes.update_ref)>> ELSE <<>>)]
  ELSE IF codes.clone # 0
       THEN [ok |-> FALSE, calls |-> <<Call("clone", codes.clone)>>]
       ELSE [ok |-> TRUE, calls |-> <<Call("clone", codes.clone)>>]

setup_repo(exists, codes) ==
  IF exists
  THEN IF codes.fetch # 0
       THEN [ok |-> FALSE, calls |-> <<Call("fetch", codes.fetch)>>]
       ELSE [ok |-> TRUE,
             calls |-> <<Call("fetch", codes.fetch)>>
                       \o <<Call("symbolic-ref", codes.symbolic_ref)>>
                       \o (IF codes.symbolic_ref = 0
                           THEN <<Call("update-ref", codes.update_ref)>>
                           ELSE <<>>)]
  ELSE IF codes.clone # 0
       THEN [ok |-> FALSE, calls |-> <<Call("clone", codes.clone)>>]
       ELSE [ok |-> TRUE, calls |-> <<Call("clone", codes.clone)>>]

(***************************************************************************)
(* The external analyzer as analyze_commit_delta sees it: the invocation   *)
(* exits non-zero, times out, prints something that is no JSON document,   *)
(* or exits zero and prints a document. A document is a dict: a function   *)
(* from its keys; <<>> is the empty dict.                                  *)
(***************************************************************************)
Locs == {0, 1000}
Ccns == {0, 3}
MiDebts == {4, 10}
Rates == {0, 2}

Productions == [loc : Locs, ccnSum : Ccns, miDebtSum : MiDebts, antipatterns : Rates]

Docs ==
  {[production |-> p] : p \in Productions}
  \cup {[production |-> p, ccnSum |-> c, miDebtSum |-> m] :
          p \in Productions, c \in Ccns, m \in MiDebts}
  \cup {[ccnSum |-> c, miDebtSum |-> m] : c \in Ccns, m \in MiDebts}
  \cup {<<>>}

Failures == {[kind |-> "exit_nonzero"], [kind |-> "timeout"], [kind |-> "malformed"]}

Ok(doc) == [kind |-> "ok", data |-> doc]

\* no invocation was made
NotInvoked == [kind |-> "not_invoked"]

Outcomes == Failures \cup {Ok(doc) : doc \in Docs}

(***************************************************************************)
(* Files and scratch directories. A file touched by a commit exists in the *)
(* parent's tree, in the commit's tree, or in both.                        *)
(***************************************************************************)
Suffixes == {".php", ".module", ".txt"}

Files == {f \in [path : {"f"}, suffix : Suffixes, at_parent : BOOLEAN,
                 at_commit : BOOLEAN] : f.at_parent \/ f.at_commit}

NoDir == [exists |-> FALSE, files |-> {}]

\* get_changed_files (lines 267-280): the touched paths whose suffix is in
\* php_extensions (a failed diff-tree lists nothing, like a commit that
\* touches nothing)
get_changed_files(commit, php_extensions) ==
  {f \in commit.touched : f.suffix \in php_extensions}

PresentAt(f, side) == IF side = "parent" THEN f.at_parent ELSE f.at_commit

\* export_changed_files (lines 283-314) into a directory that does not
\* exist (lines 361-362, 367-368 removed it): the directory afterwards
export_changed_files(files, side) ==
  IF files = {} THEN NoDir
  ELSE [exists |-> TRUE, files |-> {f \in files : PresentAt(f, side)}]

(***************************************************************************)
(* get_metrics (lines 337-358).                                            *)
(***************************************************************************)
ZeroMetrics == [loc |-> 0, ccnSum |-> 0, miDebtSum |-> 0, antipatterns |-> 0]

\* line 338: the analyzer is run only on a directory holding a *.php file
HasPhp(directory) ==
  directory.exists /\ \E f \in directory.files : f.suffix = ".php"

\* int(x / 1000) of a non-negative x
IntDiv1000(x) == x \div 1000

\* lines 346-355, on the parsed document
parse_metrics(data) ==
  LET prod == Get(data, "production", <<>>)
      loc == Get(prod, "loc", 0)
  IN  [loc |-> loc,
       ccnSum |-> Get(data, "ccnSum", 0),
       miDebtSum |-> Get(data, "miDebtSum", 0),
       antipatterns |-> IF loc > 0
                        THEN IntDiv1000(Get(prod, "antipatterns", 0) * loc)
                        ELSE 0]

\* out is what the analyzer does if it is invoked on the directory
get_metrics(directory, out) ==
  IF ~HasPhp(directory) THEN ZeroMetrics
  ELSE IF out.kind = "ok" THEN parse_metrics(out.data)
  ELSE ZeroMetrics

(***************************************************************************)
(* analyze_commit_delta (lines 317-377).                                   *)
(***************************************************************************)
None == [none |-> TRUE]

ZeroDelta == [locDelta |-> 0, ccnDelta |-> 0, miDelta |-> 0, antipatternsDelta |-> 0]

subtract_uninverted(commit_m, parent_m) ==
  [locDelta |-> commit_m.loc - parent_m.loc,
   ccnDelta |-> commit_m.ccnSum - parent_m.ccnSum,
   miDelta |-> commit_m.miDebtSum - parent_m.miDebtSum,
   antipatternsDelta |-> commit_m.antipatterns - parent_m.antipatterns]

\* lines 372-377
subtract(commit_m, parent_m) ==
  [locDelta |-> commit_m.loc - parent_m.loc,
   ccnDelta |-> commit_m.ccnSum - parent_m.ccnSum,
   miDelta |-> parent_m.miDebtSum - commit_m.miDebtSum,
   antipatternsDelta |-> commit_m.antipatterns - parent_m.antipatterns]

\* the whole function, for a commit that carries what the analyzer does on
\* each side (parent_out, commit_out)
analyze_commit_delta(commit, script_exists, php_extensions) ==
  IF ~commit.hasParent THEN None
  ELSE LET files == get_changed_files(commit, php_extensions)
       IN  IF files = {} THEN ZeroDelta
           ELSE IF ~script_exists THEN ZeroDelta
           ELSE subtract(
                  get_metrics(export_changed_files(files, "commit"), commit.commit_out),
                  get_metrics(export_changed_files(files, "parent"), commit.parent_out))

(***************************************************************************)
(* analyze_recent_commits (lines 380-413).                                 *)
(***************************************************************************)
\* a 40-digit hash: its first 11 digits and the rest
Hash(n) == [p11 |-> n, rest |-> n]

\* commit['hash'][:11]
Short11(h) == h.p11

MetricKeys == {"ccnDelta", "miDelta", "antipatternsDelta"}

has_metric_changes_withLoc(d) ==
  \E key \in MetricKeys \cup {"locDelta"} : d[key] # 0

\* lines 391-392
has_metric_changes(d) == \E key \in MetricKeys : d[key] # 0

\* line 399: "delta and has_metric_changes(delta)"; None is falsy and the
\* four-key dict is truthy
Qualifies(d) == d # None /\ has_metric_changes(d)

\* lines 401-407
Entry(commit, d) ==
  [hash |-> Short11(commit.hash), date |-> commit.date, type |-> commit.type,
   message |-> commit.message, locDelta |-> d.locDelta, ccnDelta |-> d.ccnDelta,
   miDelta |-> d.miDelta, antipatternsDelta |-> d.antipatternsDelta]

\* lines 398-407: the body of the loop after the break test
ScanBody(res, commit, script_exists, php_extensions) ==
  LET d == analyze_commit_delta(commit, script_exists, php_extensions)
  IN  IF Qualifies(d) THEN Append(res, Entry(commit, d)) ELSE res

LoopExit_strict(res, tc) == Len(res) > tc

\* lines 395-396
LoopExit(res, tc) == Len(res) >= tc

RECURSIVE ScanLoop(_, _, _, _, _)
\* lines 394-407
ScanLoop(res, rest, script_exists, php_extensions, tc) ==
  IF rest = <<>> \/ LoopExit(res, tc) THEN res
  ELSE ScanLoop(ScanBody(res, Head(rest), script_exists, php_extensions),
                Tail(rest), script_exists, php_extensions, tc)

\* lines 383-413, as one function of the list get_recent_commits returned
analyze_recent_commits(cs, script_exists, php_extensions, tc) ==
  IF cs = <<>> THEN <<>>
  ELSE ScanLoop(<<>>, cs, script_exists, php_extensions, tc)

\* default of the parameter target_count
TargetCountDefault == 100

(***************************************************************************)
(* The windows of recent commits the scan is run on. A commit of a window  *)
(* is a root commit, a commit touching no source file, or a commit         *)
(* changing one .php file present on both sides, with what the analyzer    *)
(* does on each side.                                                      *)
(***************************************************************************)
PhpFile == [path |-> "f", suffix |-> ".php", at_parent |-> TRUE, at_commit |-> TRUE]
TxtFile == [path |-> "f", suffix |-> ".txt", at_parent |-> TRUE, at_commit |-> TRUE]

ScanDocs ==
  {[production |-> [loc |-> 1000, ccnSum |-> 3, miDebtSum |-> 4, antipatterns |-> 0]],
   [production |-> [loc |-> 1000, ccnSum |-> 0, miDebtSum |-> 4, antipatterns |-> 2],
    ccnSum |-> 3, miDebtSum |-> 4]}

ScanOutcomes == {[kind |-> "timeout"]} \cup {Ok(doc) : doc \in ScanDocs}

CommitEnvs ==
  {[hasParent |-> FALSE, touched |-> {PhpFile},
    parent_out |-> [kind |-> "exit_nonzero"], commit_out |-> [kind |-> "exit_nonzero"]],
   [hasParent |-> TRUE, touched |-> {TxtFile},
    parent_out |-> [kind |-> "exit_nonzero"], commit_out |-> [kind |-> "exit_nonzero"]]}
  \cup {[hasParent |-> TRUE, touched |-> {PhpFile}, parent_out |-> p, commit_out |-> c] :
          p \in ScanOutcomes, c \in ScanOutcomes}

\* the commit at position n of a window: position n of the listing gives
\* hash, date, type and message
WindowCommit(n, env) ==
  [hash |-> Hash(n), date |-> n, type |-> "Unknown", message |-> n,
   hasParent |-> env.hasParent, touched |-> env.touched,
   parent_out |-> env.parent_out, commit_out |-> env.commit_out]

Windows(maxlen) ==
  UNION {{[n \in 1..len |-> WindowCommit(n, e[n])] : e \in [1..len -> CommitEnvs]} :
           len \in 0..maxlen}

(***************************************************************************)
(* Initial values of the variables of each part.                           *)
(***************************************************************************)
NoDate == [year |-> 0, month |-> 1, day |-> 1]
NoLabel == YearMonth(NoDate)

PipeIdle ==
  /\ pc = "idle" /\ framework = "drupal" /\ php_script_exists = TRUE
  /\ repo_exists = TRUE /\ vc_calls = <<>> /\ today = NoDate /\ target = NoDate
  /\ snapshot_dates = <<>> /\ i = 0 /\ snapshots = <<>> /\ current_date = NoLabel
  /\ head_appended = FALSE /\ work_exists = FALSE /\ commits = <<>>
  /\ counts_done = 0 /\ report = <<>> /\ events = <<>>

ScanIdle ==
  /\ scan_pc = "idle" /\ window = <<>> /\ target_count = TargetCountDefault
  /\ idx = 0 /\ results = <<>> /\ analysed = <<>> /\ commit_work_exists = FALSE

DeltaIdle ==
  /\ d_pc = "idle" /\ d_commit = [hasParent |-> FALSE, touched |-> {}]
  /\ d_script_exists = TRUE /\ d_exts = {} /\ changed_files = {}
  /\ parent_dir = NoDir /\ commit_dir = NoDir
  /\ parent_out = NotInvoked /\ commit_out = NotInvoked
  /\ parent_metrics = None /\ commit_metrics = None
  /\ delta = None /\ php_calls = <<>>

LogIdle ==
  /\ log_pc = "idle" /\ git_log = <<>> /\ stdout_lines = <<>> /\ ln = 0
  /\ current_hash = None /\ current_msg = None /\ current_dt = None
  /\ parsed = <<>> /\ returned = None

(***************************************************************************)
(* analyze_framework (lines 462-566).                                      *)
(***************************************************************************)
\* the values datetime.now() takes at line 490: the last day before the
\* anchor's year, and the first and the fifteenth day of the months that
\* begin and end a half-year, in the anchor's year and the years after it
Todays(fw) ==
  LET y0 == FRAMEWORKS[fw].start_date.year
  IN  {[year |-> y0 - 1, month |-> 12, day |-> 31]}
      \cup [year : y0..(y0 + MaxSpanYears), month : {1, 6, 7, 12}, day : {1, 15}]

\* the first day of the month after t
NextMonthStart(t) ==
  IF t.month = 12 THEN [year |-> t.year + 1, month |-> 1, day |-> 1]
  ELSE [year |-> t.year, month |-> t.month + 1, day |-> 1]

\* the values datetime.now() takes at line 524, after the snapshot pass
LaterNows(t) == {t, NextMonthStart(t)}

\* what happens to one sample: get_commit_for_date finds no commit, or
\* analyze_version ends at line 426, 432, 443, 459 or 447
SampleOutcomes == {"no_commit", "export_failed", "no_subdir", "analyzer_failed",
                   "bad_json", "ok"}

Snapshot(label, commit) == [date |-> label, commit |-> commit]

PipeInit ==
  /\ pc = "start"
  /\ framework \in DOMAIN FRAMEWORKS
  /\ php_script_exists \in BOOLEAN
  /\ repo_exists \in BOOLEAN
  /\ vc_calls = <<>> /\ today = NoDate /\ target = NoDate
  /\ snapshot_dates = <<>> /\ i = 0 /\ snapshots = <<>> /\ current_date = NoLabel
  /\ head_appended = FALSE /\ work_exists = FALSE /\ commits = <<>>
  /\ counts_done = 0 /\ report = <<>> /\ events = <<>>

\* lines 479-483
CheckAnalyzer ==
  /\ pc = "start"
  /\ pc' = IF php_script_exists THEN "setup" ELSE "exit"
  /\ UNCHANGED <<framework, php_script_exists, repo_exists, vc_calls, today,
                 target, snapshot_dates, i, snapshots, current_date,
                 head_appended, work_exists, commits, counts_done, report, events>>
  /\ UNCHANGED <<scanVars, deltaVars, logVars>>

\* lines 485-487
SetupRepo ==
  /\ pc = "setup"
  /\ \E codes \in VcCodes :
       LET r == setup_repo(repo_exists, codes)
       IN  /\ vc_calls' = r.calls
           /\ repo_exists' = (repo_exists \/ r.ok)
           /\ pc' = IF r.ok THEN "sched_init" ELSE "exit"
  /\ UNCHANGED <<framework, php_script_exists, today, target, snapshot_dates, i,
                 snapshots, current_date, head_appended, work_exists, commits,
                 counts_done, report, events>>
  /\ UNCHANGED <<scanVars, deltaVars, logVars>>

\* lines 490-492
InitSchedule ==
  /\ pc = "sched_init"
  /\ today' \in Todays(framework)
  /\ target' = Anchor(FRAMEWORKS[framework].start_date)
  /\ snapshot_dates' = <<>>
  /\ pc' = "schedule"
  /\ UNCHANGED <<framework, php_script_exists, repo_exists, vc_calls, i,
                 snapshots, current_date, head_appended, work_exists, commits,
                 counts_done, report, events>>
  /\ UNCHANGED <<scanVars, deltaVars, logVars>>

\* lines 493-499: one iteration of the while loop
ScheduleStep ==
  /\ pc = "schedule"
  /\ DateLeq(target, today)
  /\ snapshot_dates' = Append(snapshot_dates, target)
  /\ target' = NextTarget(target)
  /\ UNCHANGED <<pc, framework, php_script_exists, repo_exists, vc_calls, today,
                 i, snapshots, current_date, head_appended, work_exists, commits,
                 counts_done, report, events>>
  /\ UNCHANGED <<scanVars, deltaVars, logVars>>

\* line 493 false, lines 501-504
ScheduleDone ==
  /\ pc = "schedule"
  /\ ~DateLeq(target, today)
  /\ pc' = "snapshots"
  /\ i' = 1
  /\ snapshots' = <<>>
  /\ UNCHANGED <<framework, php_script_exists, repo_exists, vc_calls, today,
                 target, snapshot_dates, current_date, head_appended, work_exists,
                 commits, counts_done, report, events>>
  /\ UNCHANGED <<scanVars, deltaVars, logVars>>

\* lines 505-518: one iteration of the for loop
SnapshotStep ==
  /\ pc = "snapshots"
  /\ i <= Len(snapshot_dates)
  /\ \E oc \in SampleOutcomes :
       /\ snapshots' = IF oc = "ok"
                       THEN Append(snapshots,
                                   Snapshot(YearMonth(snapshot_dates[i]), "dated"))
                       ELSE snapshots
       \* export_version (lines 186-188) creates the work directory
       /\ work_exists' = (work_exists \/ oc # "no_commit")
  /\ i' = i + 1
  /\ UNCHANGED <<pc, framework, php_script_exists, repo_exists, vc_calls, today,
                 target, snapshot_dates, current_date, head_appended, commits,
                 counts_done, report, events>>
  /\ UNCHANGED <<scanVars, deltaVars, logVars>>

AnalyzeHead_noLabelTest ==
  /\ pc = "snapshots"
  /\ i > Len(snapshot_dates)
  /\ \E head_ok \in BOOLEAN, now2 \in LaterNows(today),
        oc \in SampleOutcomes \ {"no_commit"} :
       IF head_ok
       THEN /\ current_date' = YearMonth(now2)
            /\ work_exists' = TRUE
            /\ snapshots' = IF oc = "ok"
                             THEN Append(snapshots, Snapshot(YearMonth(now2), "HEAD"))
                             ELSE snapshots
            /\ head_appended' = (oc = "ok")
       ELSE UNCHANGED <<current_date, work_exists, snapshots, head_appended>>
  /\ pc' = "cleanup"
  /\ events' = Append(events, "snapshots")
  /\ UNCHANGED <<framework, php_script_exists, repo_exists, vc_calls, today,
                 target, snapshot_dates, i, commits, counts_done, report>>
  /\ UNCHANGED <<scanVars, deltaVars, logVars>>

\* lines 520-531, after the for loop
AnalyzeHead ==
  /\ pc = "snapshots"
  /\ i > Len(snapshot_dates)
  /\ \E head_ok \in BOOLEAN, now2 \in LaterNows(today),
        oc \in SampleOutcomes \ {"no_commit"} :
       IF head_ok
       THEN /\ current_date' = YearMonth(now2)
            /\ IF snapshots = <<>> \/ Last(snapshots).date # YearMonth(now2)
               THEN /\ work_exists' = TRUE
                    /\ snapshots' = IF oc = "ok"
                                     THEN Append(snapshots,
                                                 Snapshot(YearMonth(now2), "HEAD"))
                                     ELSE snapshots
                    /\ head_appended' = (oc = "ok")
               ELSE UNCHANGED <<work_exists, snapshots, head_appended>>
       ELSE UNCHANGED <<current_date, work_exists, snapshots, head_appended>>
  /\ pc' = "cleanup"
  /\ events' = Append(events, "snapshots")
  /\ UNCHANGED <<framework, php_script_exists, repo_exists, vc_calls, today,
                 target, snapshot_dates, i, commits, counts_done, report>>
  /\ UNCHANGED <<scanVars, deltaVars, logVars>>

\* lines 533-536
CleanupWork ==
  /\ pc = "cleanup"
  /\ work_exists' = FALSE
  /\ pc' = "scan"
  /\ events' = Append(events, "cleanup")
  /\ UNCHANGED <<framework, php_script_exists, repo_exists, vc_calls, today,
                 target, snapshot_dates, i, snapshots, current_date,
                 head_appended, commits, counts_done, report>>
  /\ UNCHANGED <<scanVars, deltaVars, logVars>>

\* lines 538-542, with analyze_recent_commits as one step, on a list of at
\* most one recent commit
AnalyzeRecentCommits ==
  /\ pc = "scan"
  /\ \E w \in Windows(1) :
       commits' = analyze_recent_commits(w, php_script_exists,
                                         FRAMEWORKS[framework].php_extensions,
                                         TargetCountDefault)
  /\ pc' = "count_year"
  /\ events' = Append(events, "scan")
  /\ UNCHANGED <<framework, php_script_exists, repo_exists, vc_calls, today,
                 target, snapshot_dates, i, snapshots, current_date,
                 head_appended, work_exists, counts_done, report>>
  /\ UNCHANGED <<scanVars, deltaVars, logVars>>

\* lines 544-546
CountPerYear ==
  /\ pc = "count_year"
  /\ counts_done' = counts_done + 1
  /\ pc' = "count_month"
  /\ UNCHANGED <<framework, php_script_exists, repo_exists, vc_calls, today,
                 target, snapshot_dates, i, snapshots, current_date,
                 head_appended, work_exists, commits, report, events>>
  /\ UNCHANGED <<scanVars, deltaVars, logVars>>

\* lines 548-549
CountPerMonth ==
  /\ pc = "count_month"
  /\ counts_done' = counts_done + 1
  /\ pc' = "save"
  /\ events' = Append(events, "counts")
  /\ UNCHANGED <<framework, php_script_exists, repo_exists, vc_calls, today,
                 target, snapshot_dates, i, snapshots, current_date,
                 head_appended, work_exists, commits, report>>
  /\ UNCHANGED <<scanVars, deltaVars, logVars>>

SaveResults_afterCleanup ==
  /\ pc \in {"scan", "save"}
  /\ report' = Append(report, [framework |-> framework, snapshots |-> snapshots,
                               commits |-> commits, counts |-> counts_done])
  /\ pc' = IF pc = "save" THEN "done" ELSE pc
  /\ events' = Append(events, "save")
  /\ UNCHANGED <<framework, php_script_exists, repo_exists, vc_calls, today,
                 target, snapshot_dates, i, snapshots, current_date,
                 head_appended, work_exists, commits, counts_done>>
  /\ UNCHANGED <<scanVars, deltaVars, logVars>>

\* lines 551-566
SaveResults ==
  /\ pc = "save"
  /\ report' = Append(report, [framework |-> framework, snapshots |-> snapshots,
                               commits |-> commits, counts |-> counts_done])
  /\ pc' = "done"
  /\ events' = Append(events, "save")
  /\ UNCHANGED <<framework, php_script_exists, repo_exists, vc_calls, today,
                 target, snapshot_dates, i, snapshots, current_date,
                 head_appended, work_exists, commits, counts_done>>
  /\ UNCHANGED <<scanVars, deltaVars, logVars>>

Init == PipeInit /\ ScanIdle /\ DeltaIdle /\ LogIdle

Next ==
  \/ CheckAnalyzer
  \/ SetupRepo
  \/ InitSchedule
  \/ ScheduleStep
  \/ ScheduleDone
  \/ SnapshotStep
  \/ AnalyzeHead
  \/ CleanupWork
  \/ AnalyzeRecentCommits
  \/ CountPerYear
  \/ CountPerMonth
  \/ SaveResults

Spec == Init /\ [][Next]_vars

(***************************************************************************)
(* Properties of analyze_framework, checked under Spec.                    *)
(***************************************************************************)
\* months since year 0
MonthIndex(d) == d.year * 12 + (d.month - 1)

\* a total order on calendar dates
DayIndex(d) == MonthIndex(d) * 31 + (d.day - 1)

ScheduleStarted == pc \notin {"start", "setup", "sched_init", "exit"}

ScheduleBuilt == ScheduleStarted /\ pc # "schedule"

\* the target that follows the targets listed so far
FollowingTargetIndex ==
  IF snapshot_dates = <<>>
  THEN MonthIndex([year |-> FRAMEWORKS[framework].start_date.year, month |-> 1])
  ELSE MonthIndex(Last(snapshot_dates)) + 6

\* C4: the schedule starts at January 1 of the anchor's year, each next target
\* is exactly six calendar months after the previous one (January 1, July 1,
\* January 1 of the next year), every target is at or before now, and the
\* target following the last one exceeds now.
C4_Schedule ==
  ScheduleStarted =>
    /\ snapshot_dates # <<>> =>
         snapshot_dates[1] = [year |-> FRAMEWORKS[framework].start_date.year,
                              month |-> 1, day |-> 1]
    /\ \A k \in 1..Len(snapshot_dates) :
         /\ snapshot_dates[k].day = 1
         /\ snapshot_dates[k].month \in {1, 7}
         /\ DayIndex(snapshot_dates[k]) <= DayIndex(today)
         /\ k > 1 => MonthIndex(snapshot_dates[k]) = MonthIndex(snapshot_dates[k-1]) + 6
    /\ target.day = 1 /\ MonthIndex(target) = FollowingTargetIndex
    /\ ScheduleBuilt => DayIndex(target) > DayIndex(today)

\* a schedule that crossed a year boundary is built
C4_Witness ==
  /\ ScheduleBuilt
  /\ Len(snapshot_dates) >= 3
  /\ snapshot_dates[2].month = 7
  /\ snapshot_dates[3].year = snapshot_dates[1].year + 1

\* C3: whatever samples are skipped, the snapshots series is strictly
\* increasing by year-month label (ordered, no label twice), and the
\* current-HEAD entry is appended only when the series collected from the
\* schedule is empty or the label of its last entry is not the current
\* year-month.
C3_SnapshotsOrdered ==
  /\ \A k \in 1..(Len(snapshots) - 1) :
       LabelLess(snapshots[k].date, snapshots[k+1].date)
  /\ head_appended =>
       /\ snapshots # <<>>
       /\ Last(snapshots) = Snapshot(current_date, "HEAD")
       /\ \A k \in 1..(Len(snapshots) - 1) :
            snapshots[k].commit = "dated" /\ snapshots[k].date # current_date
  /\ \A k \in 1..Len(snapshots) :
       snapshots[k].commit = "HEAD" => (head_appended /\ k = Len(snapshots))

\* the last scheduled sample has the current year-month as its label, was
\* skipped, and the current-HEAD entry follows an earlier scheduled entry
C3_Witness ==
  /\ head_appended
  /\ Len(snapshots) >= 2
  /\ snapshot_dates # <<>>
  /\ YearMonth(Last(snapshot_dates)) = current_date

\* C3 as stated: the current-HEAD entry is appended only when the label of
\* the last scheduled sample is not the current year-month.
C3_Original ==
  head_appended =>
    (snapshot_dates = <<>> \/ YearMonth(Last(snapshot_dates)) # current_date)

SetupReturned == vc_calls # <<>>

\* C8 as stated: setup_repo returns false whenever any git invocation it
\* makes exits non-zero; the run is then aborted.
C8_Original ==
  (\E k \in 1..Len(vc_calls) : vc_calls[k].code # 0) => pc = "exit"

\* C8: setup_repo returns false exactly when the clone (no mirror) or the
\* fetch (existing mirror) exits non-zero, the exit codes of the symbolic-HEAD
\* read and of the HEAD update do not change the result, and on false the
\* run is aborted before any snapshot or delta work.
C8_SetupRepo ==
  /\ SetupReturned =>
       ((pc = "exit") <=>
          \E k \in 1..Len(vc_calls) :
            vc_calls[k].cmd \in {"clone", "fetch"} /\ vc_calls[k].code # 0)
  /\ pc = "exit" =>
       /\ snapshot_dates = <<>> /\ snapshots = <<>> /\ commits = <<>>
       /\ events = <<>> /\ report = <<>> /\ ~work_exists /\ counts_done = 0

\* the fetch failed and the run was aborted
C8_Witness ==
  /\ pc = "exit"
  /\ \E k \in 1..Len(vc_calls) : vc_calls[k].cmd = "fetch" /\ vc_calls[k].code # 0

IsPrefix(s, t) == Len(s) <= Len(t) /\ \A k \in 1..Len(s) : s[k] = t[k]

\* C9: the report is written at most once, and only after the snapshot pass,
\* the removal of the snapshot scratch directory, the recent-commit scan and
\* the commit-count aggregation completed in that order; a run that ends in a
\* fatal setup failure writes no report.
C9_ReportOnce ==
  /\ Len(report) <= 1
  /\ IsPrefix(events, <<"snapshots", "cleanup", "scan", "counts", "save">>)
  /\ report # <<>> =>
       /\ events = <<"snapshots", "cleanup", "scan", "counts", "save">>
       /\ ~work_exists
       /\ counts_done = 2
       /\ report[1].snapshots = snapshots /\ report[1].commits = commits
  /\ pc = "exit" => report = <<>>

\* a run reached its end with a report holding snapshots
C9_Witness ==
  pc = "done" /\ Len(report) = 1 /\ report[1].snapshots # <<>>

(***************************************************************************)
(* analyze_recent_commits, one iteration of its loop per step, called from *)
(* line 539 of analyze_framework with any list of recent commits and any   *)
(* target_count, followed by the rest of analyze_framework.                *)
(***************************************************************************)
\* analyze_framework at line 538, after a run in which "now" is before the
\* anchor (no scheduled sample) and HEAD did not resolve
ScanPipeInit ==
  /\ pc = "scan"
  /\ framework \in DOMAIN FRAMEWORKS
  /\ php_script_exists = TRUE
  /\ repo_exists = TRUE
  /\ vc_calls = <<Call("fetch", 0), Call("symbolic-ref", 0), Call("update-ref", 0)>>
  /\ today = [year |-> FRAMEWORKS[framework].start_date.year - 1,
              month |-> 12, day |-> 31]
  /\ target = Anchor(FRAMEWORKS[framework].start_date)
  /\ snapshot_dates = <<>> /\ i = 1 /\ snapshots = <<>> /\ current_date = NoLabel
  /\ head_appended = FALSE /\ work_exists = FALSE /\ commits = <<>>
  /\ counts_done = 0 /\ report = <<>> /\ events = <<"snapshots", "cleanup">>

ScanInit ==
  /\ scan_pc = "idle"
  /\ window \in Windows(MaxCommits)
  /\ target_count \in 0..MaxTarget
  /\ idx = 0 /\ results = <<>> /\ analysed = <<>> /\ commit_work_exists = FALSE

Exts == FRAMEWORKS[framework].php_extensions

\* analyze_commit_delta reaches line 335 and creates the scratch directory
ReachesMkdir(commit) ==
  /\ commit.hasParent
  /\ get_changed_files(commit, Exts) # {}
  /\ php_script_exists

\* lines 383-389
ScanStart ==
  /\ pc = "scan" /\ scan_pc = "idle"
  /\ results' = <<>>
  /\ IF window = <<>>
     THEN scan_pc' = "returned" /\ idx' = idx
     ELSE scan_pc' = "loop" /\ idx' = 1
  /\ UNCHANGED <<window, target_count, analysed, commit_work_exists>>
  /\ UNCHANGED <<pipeVars, deltaVars, logVars>>

\* lines 394-396: the break
ScanBreak ==
  /\ scan_pc = "loop"
  /\ idx <= Len(window)
  /\ LoopExit(results, target_count)
  /\ scan_pc' = "cleanup"
  /\ UNCHANGED <<window, target_count, idx, results, analysed, commit_work_exists>>
  /\ UNCHANGED <<pipeVars, deltaVars, logVars>>

\* lines 394-407: one commit analysed
ScanIter ==
  /\ scan_pc = "loop"
  /\ idx <= Len(window)
  /\ ~LoopExit(results, target_count)
  /\ results' = ScanBody(results, window[idx], php_script_exists, Exts)
  /\ analysed' = Append(analysed, window[idx].hash)
  /\ commit_work_exists' = (commit_work_exists \/ ReachesMkdir(window[idx]))
  /\ idx' = idx + 1
  /\ UNCHANGED <<scan_pc, window, target_count>>
  /\ UNCHANGED <<pipeVars, deltaVars, logVars>>

\* line 394: the list is exhausted
ScanExhausted ==
  /\ scan_pc = "loop"
  /\ idx > Len(window)
  /\ scan_pc' = "cleanup"
  /\ UNCHANGED <<window, target_count, idx, results, analysed, commit_work_exists>>
  /\ UNCHANGED <<pipeVars, deltaVars, logVars>>

\* lines 409-413
ScanCleanup ==
  /\ scan_pc = "cleanup"
  /\ commit_work_exists' = FALSE
  /\ scan_pc' = "returned"
  /\ UNCHANGED <<window, target_count, idx, results, analysed>>
  /\ UNCHANGED <<pipeVars, deltaVars, logVars>>

\* lines 539-542: the caller takes the list returned
ScanReturn ==
  /\ pc = "scan" /\ scan_pc = "returned"
  /\ commits' = results
  /\ pc' = "count_year"
  /\ events' = Append(events, "scan")
  /\ UNCHANGED <<framework, php_script_exists, repo_exists, vc_calls, today,
                 target, snapshot_dates, i, snapshots, current_date,
                 head_appended, work_exists, counts_done, report>>
  /\ UNCHANGED <<scanVars, deltaVars, logVars>>

InitScan == ScanPipeInit /\ ScanInit /\ DeltaIdle /\ LogIdle

NextScan ==
  \/ ScanStart
  \/ ScanBreak
  \/ ScanIter
  \/ ScanExhausted
  \/ ScanCleanup
  \/ ScanReturn
  \/ CountPerYear
  \/ CountPerMonth
  \/ SaveResults

SpecScan == InitScan /\ [][NextScan]_vars

(***************************************************************************)
(* Properties of the scan, checked under SpecScan.                         *)
(***************************************************************************)
DeltaOf(commit) == analyze_commit_delta(commit, php_script_exists, Exts)

\* the positions of the window whose commit has a metric-affecting delta
QualifyingPositions == {n \in 1..Len(window) : Qualifies(DeltaOf(window[n]))}

QualifyingUpTo(n) == Cardinality({m \in QualifyingPositions : m <= n})

\* the position at which the k-th qualifying commit is found (0 for k = 0)
PositionOfKth(k) ==
  IF k = 0 THEN 0
  ELSE CHOOSE n \in QualifyingPositions : QualifyingUpTo(n) = k

\* the entries of the qualifying commits at positions 1..n, in scan order
RECURSIVE QualifyingEntries(_)
QualifyingEntries(n) ==
  IF n = 0 THEN <<>>
  ELSE IF n \in QualifyingPositions
       THEN Append(QualifyingEntries(n - 1), Entry(window[n], DeltaOf(window[n])))
       ELSE QualifyingEntries(n - 1)

ScanOver == scan_pc \in {"cleanup", "returned"}

\* C1: the scan analyses the listed commits in order and stops as soon as
\* target_count qualifying commits are collected: the result is the prefix of
\* the qualifying commits in scan order, has exactly target_count entries when
\* the window holds more than target_count of them and all of them otherwise,
\* and no commit after the one that completed the target is analysed.
C1_BoundedScan ==
  LET nq == Cardinality(QualifyingPositions)
      stop == IF nq >= target_count THEN PositionOfKth(target_count)
              ELSE Len(window)
  IN  /\ Len(analysed) <= Len(window)
      /\ \A k \in 1..Len(analysed) : analysed[k] = window[k].hash
      /\ results = QualifyingEntries(Len(analysed))
      /\ Len(results) <= target_count
      /\ ScanOver =>
           /\ Len(analysed) = stop
           /\ nq > target_count => Len(results) = target_count
           /\ nq <= target_count => results = QualifyingEntries(Len(window))
      /\ pc \notin {"scan"} => commits = results

\* the scan stopped at the target with a qualifying commit left unanalysed
C1_Witness ==
  /\ scan_pc = "returned"
  /\ target_count >= 1
  /\ Len(results) = target_count
  /\ Len(analysed) < Len(window)
  /\ Cardinality(QualifyingPositions) > target_count

MetricMoved(e) == e.ccnDelta # 0 \/ e.miDelta # 0 \/ e.antipatternsDelta # 0

EntryHashes(list) == {list[k].hash : k \in 1..Len(list)}

\* a commit with no delta (root commit) or with ccnDelta, miDelta and
\* antipatternsDelta all zero
Unmoved(commit) ==
  \/ ~commit.hasParent
  \/ LET d == DeltaOf(commit)
     IN  d.ccnDelta = 0 /\ d.miDelta = 0 /\ d.antipatternsDelta = 0

\* C2: at every point of the scan and in the report, every entry of the
\* commits list has ccnDelta, miDelta or antipatternsDelta different from
\* zero; a root commit, an all-zero delta or a delta nonzero only in locDelta
\* never gives an entry.
C2_OnlyMetricChanges ==
  /\ \A k \in 1..Len(results) : MetricMoved(results[k])
  /\ \A k \in 1..Len(commits) : MetricMoved(commits[k])
  /\ \A r \in 1..Len(report) :
       \A k \in 1..Len(report[r].commits) : MetricMoved(report[r].commits[k])
  /\ \A n \in 1..Len(window) :
       Unmoved(window[n]) =>
         Short11(window[n].hash) \notin
           (EntryHashes(results) \cup EntryHashes(commits))

\* the report holds an entry, and the scan analysed a commit whose delta is
\* nonzero only in locDelta
C2_Witness ==
  /\ pc = "done"
  /\ report[1].commits # <<>>
  /\ \E n \in 1..Len(analysed) :
       /\ window[n].hasParent
       /\ Unmoved(window[n])
       /\ DeltaOf(window[n]).locDelta # 0

\* the analyzer is invoked on a side of the commit and fails there
AnalyzerFailsOn(commit) ==
  /\ ReachesMkdir(commit)
  /\ \/ /\ HasPhp(export_changed_files(get_changed_files(commit, Exts), "parent"))
        /\ commit.parent_out \in Failures
     \/ /\ HasPhp(export_changed_files(get_changed_files(commit, Exts), "commit"))
        /\ commit.commit_out \in Failures

\* C7: when the analyzer fails, times out or prints malformed output on
\* either side of a commit, the commit does not appear in the commits list;
\* the scan goes on with the next commit.
C7_FailedCommitDropped ==
  \A n \in 1..Len(analysed) :
    AnalyzerFailsOn(window[n]) =>
      Short11(window[n].hash) \notin (EntryHashes(results) \cup EntryHashes(commits))

(***************************************************************************)
(* analyze_commit_delta on one commit, one statement per step. The         *)
(* analyzer's behaviour is chosen when it is invoked.                      *)
(***************************************************************************)
\* the sets of files a commit touches: one record per path
TouchedSets ==
  {t \in SUBSET Files :
     /\ Cardinality(t) <= MaxFiles
     /\ \A f, g \in t : f.suffix = g.suffix => f = g}

\* what an earlier call left in a scratch subdirectory
StaleDir == [exists |-> TRUE, files |-> {PhpFile}]

DeltaInit ==
  /\ d_pc = "start"
  /\ d_commit \in [hasParent : BOOLEAN, touched : TouchedSets]
  /\ d_script_exists \in BOOLEAN
  /\ d_exts \in {FRAMEWORKS[fw].php_extensions : fw \in DOMAIN FRAMEWORKS}
  /\ changed_files = {}
  /\ \E stale \in BOOLEAN :
       /\ parent_dir = IF stale THEN StaleDir ELSE NoDir
       /\ commit_dir = IF stale THEN StaleDir ELSE NoDir
  /\ parent_out = NotInvoked /\ commit_out = NotInvoked
  /\ parent_metrics = None /\ commit_metrics = None
  /\ delta = None /\ php_calls = <<>>

\* lines 320-326
DeltaResolveParent ==
  /\ d_pc = "start"
  /\ IF d_commit.hasParent
     THEN d_pc' = "diff" /\ delta' = delta
     ELSE d_pc' = "returned" /\ delta' = None
  /\ UNCHANGED <<d_commit, d_script_exists, d_exts, changed_files, parent_dir,
                 commit_dir, parent_out, commit_out, parent_metrics,
                 commit_metrics, php_calls>>
  /\ UNCHANGED <<pipeVars, scanVars, logVars>>

\* lines 328-335
DeltaChangedFiles ==
  /\ d_pc = "diff"
  /\ changed_files' = get_changed_files(d_commit, d_exts)
  /\ IF changed_files' = {} \/ ~d_script_exists
     THEN d_pc' = "returned" /\ delta' = ZeroDelta
     ELSE d_pc' = "parent" /\ delta' = delta
  /\ UNCHANGED <<d_commit, d_script_exists, d_exts, parent_dir, commit_dir,
                 parent_out, commit_out, parent_metrics, commit_metrics,
                 php_calls>>
  /\ UNCHANGED <<pipeVars, scanVars, logVars>>

\* lines 360-364
DeltaMeasureParent ==
  /\ d_pc = "parent"
  /\ parent_dir' = export_changed_files(changed_files, "parent")
  /\ IF HasPhp(parent_dir')
     THEN \E out \in Outcomes :
            /\ parent_out' = out
            /\ parent_metrics' = get_metrics(parent_dir', out)
            /\ php_calls' = Append(php_calls, "parent")
     ELSE /\ parent_out' = NotInvoked
          /\ parent_metrics' = get_metrics(parent_dir', NotInvoked)
          /\ php_calls' = php_calls
  /\ d_pc' = "commit"
  /\ UNCHANGED <<d_commit, d_script_exists, d_exts, changed_files, commit_dir,
                 commit_out, commit_metrics, delta>>
  /\ UNCHANGED <<pipeVars, scanVars, logVars>>

\* lines 366-370
DeltaMeasureCommit ==
  /\ d_pc = "commit"
  /\ commit_dir' = export_changed_files(changed_files, "commit")
  /\ IF HasPhp(commit_dir')
     THEN \E out \in Outcomes :
            /\ commit_out' = out
            /\ commit_metrics' = get_metrics(commit_dir', out)
            /\ php_calls' = Append(php_calls, "commit")
     ELSE /\ commit_out' = NotInvoked
          /\ commit_metrics' = get_metrics(commit_dir', NotInvoked)
          /\ php_calls' = php_calls
  /\ d_pc' = "subtract"
  /\ UNCHANGED <<d_commit, d_script_exists, d_exts, changed_files, parent_dir,
                 parent_out, parent_metrics, delta>>
  /\ UNCHANGED <<pipeVars, scanVars, logVars>>

\* lines 372-377
DeltaReturn ==
  /\ d_pc = "subtract"
  /\ delta' = subtract(commit_metrics, parent_metrics)
  /\ d_pc' = "returned"
  /\ UNCHANGED <<d_commit, d_script_exists, d_exts, changed_files, parent_dir,
                 commit_dir, parent_out, commit_out, parent_metrics,
                 commit_metrics, php_calls>>
  /\ UNCHANGED <<pipeVars, scanVars, logVars>>

InitDelta == PipeIdle /\ ScanIdle /\ DeltaInit /\ LogIdle

NextDelta ==
  \/ DeltaResolveParent
  \/ DeltaChangedFiles
  \/ DeltaMeasureParent
  \/ DeltaMeasureCommit
  \/ DeltaReturn

SpecDelta == InitDelta /\ [][NextDelta]_vars

(***************************************************************************)
(* Properties of analyze_commit_delta, checked under SpecDelta.            *)
(***************************************************************************)
Measured(m) == m # None

\* C5: for a commit with a parent and a non-empty ChangeSet whose two sides
\* were measured, locDelta = commit loc - parent loc, ccnDelta = commit
\* ccnSum - parent ccnSum, antipatternsDelta = commit antipatterns - parent
\* antipatterns, and miDelta = parent debt - commit debt (parent debt 10 and
\* commit debt 4 give +6).
C5_DeltaArithmetic ==
  (d_pc = "returned" /\ d_commit.hasParent /\ changed_files # {}) =>
    IF Measured(parent_metrics) /\ Measured(commit_metrics)
    THEN /\ delta.locDelta = commit_metrics.loc - parent_metrics.loc
         /\ delta.ccnDelta = commit_metrics.ccnSum - parent_metrics.ccnSum
         /\ delta.antipatternsDelta =
              commit_metrics.antipatterns - parent_metrics.antipatterns
         /\ delta.miDelta = parent_metrics.miDebtSum - commit_metrics.miDebtSum
         /\ (parent_metrics.miDebtSum = 10 /\ commit_metrics.miDebtSum = 4) =>
              delta.miDelta = 6
    ELSE \* line 333: no analyzer script, nothing measured
         ~d_script_exists /\ delta = ZeroDelta

\* parent debt 10, commit debt 4
C5_Witness ==
  /\ d_pc = "returned"
  /\ Measured(parent_metrics) /\ Measured(commit_metrics)
  /\ parent_metrics.miDebtSum = 10 /\ commit_metrics.miDebtSum = 4
  /\ delta.miDelta = 6

\* the analyzer exited with zero and printed a document whose production
\* object carries loc, ccnSum and miDebtSum
ProductionEmitted(out) ==
  /\ out.kind = "ok"
  /\ "production" \in DOMAIN out.data
  /\ {"loc", "ccnSum", "miDebtSum"} \subseteq DOMAIN out.data.production

FragmentOfProduction(out, m) ==
  ProductionEmitted(out) =>
    /\ m.loc = out.data.production.loc
    /\ m.ccnSum = out.data.production.ccnSum
    /\ m.miDebtSum = out.data.production.miDebtSum

\* C6: when the analyzer exits with zero and prints a document whose
\* production object carries loc, ccnSum and miDebtSum, the fragment
\* get_metrics returns has loc, ccnSum and miDebtSum equal to those values.
C6_FragmentFromProduction ==
  /\ FragmentOfProduction(parent_out, parent_metrics)
  /\ FragmentOfProduction(commit_out, commit_metrics)

\* the directory exists and holds a file whose suffix is in the configured
\* source-suffix set
HoldsSourceFile(directory) ==
  directory.exists /\ \E f \in directory.files : f.suffix \in d_exts

InvokedOn(side) == \E k \in 1..Len(php_calls) : php_calls[k] = side

\* C11: the analyzer is invoked for a side exactly when that side's scratch
\* directory exists and holds a file whose suffix is in the configured
\* source-suffix set, and otherwise the zero fragment is returned with no
\* invocation; a commit whose ChangeSet is empty gets an all-zero delta with
\* no invocation.
C11_InvokedIffSourceFile ==
  /\ Measured(parent_metrics) =>
       /\ InvokedOn("parent") <=> HoldsSourceFile(parent_dir)
       /\ ~InvokedOn("parent") => parent_metrics = ZeroMetrics
  /\ Measured(commit_metrics) =>
       /\ InvokedOn("commit") <=> HoldsSourceFile(commit_dir)
       /\ ~InvokedOn("commit") => commit_metrics = ZeroMetrics
  /\ (d_pc = "returned" /\ d_commit.hasParent /\ changed_files = {}) =>
       delta = ZeroDelta /\ php_calls = <<>>

(***************************************************************************)
(* get_recent_commits (lines 212-264), one line of the log per step.       *)
(***************************************************************************)
\* what "git log --pretty=format:COMMIT:%H:%cs:%s --shortstat" lists for one
\* commit: its commit date, its subject and its shortstat; a commit that
\* changes no file (a merge without changes) has no shortstat line
LogDates == {1, 2}
SubjectLens == {72, 95}
NoStat == [present |-> FALSE, insertions |-> 0, deletions |-> 0]
Stats == {NoStat} \cup [present : {TRUE}, insertions : 0..MaxLines,
                        deletions : 0..MaxLines]

LogEntries == [date : LogDates, len : SubjectLens, stat : Stats]

\* the subject of the commit at position n: its text, its length and the
\* prefix it starts with
SubjectPrefixes == <<"FIX:", "[FEATURE]", "docs:", "Issue">>
Subject(n, len) ==
  [text |-> n, len |-> len, prefix |-> SubjectPrefixes[((n - 1) % 4) + 1]]

\* parts[3][:80], line 236
MsgLimit == 80
Truncate80(subject) ==
  [subject EXCEPT !.len = IF subject.len > MsgLimit THEN MsgLimit ELSE subject.len]

\* classify_commit (lines 131-143) on the prefixes above, lower-cased
Lower(prefix) ==
  IF prefix = "FIX:" THEN "fix:"
  ELSE IF prefix = "[FEATURE]" THEN "[feature]"
  ELSE IF prefix = "Issue" THEN "issue"
  ELSE prefix

classify_commit(subject) ==
  LET p == Lower(subject.prefix)
  IN  IF p \in {"fix:", "bug:", "[bugfix]", "[!!!][bugfix]"} THEN "Bug"
      ELSE IF p \in {"feat:", "[feature]", "[!!!][feature]"} THEN "Feature"
      ELSE IF p \in {"task:", "docs:", "ci:", "test:", "perf:", "chore:",
                     "refactor:", "[task]", "[docs]"} THEN "Maintenance"
      ELSE "Unknown"

\* strptime("%Y-%m-%d") then strftime("%b %d, %Y"), lines 247-248
FormatDate(d) == [b_d_Y |-> d]

CommitLine(n, e) ==
  [kind |-> "commit", hash |-> Hash(n), date |-> e.date, subject |-> Subject(n, e.len)]

\* " N files changed, X insertions(+), Y deletions(-)": a part is printed
\* only when its count is not zero
StatLine(e) ==
  [kind |-> "stat", insertions |-> e.stat.insertions, deletions |-> e.stat.deletions]

BlankLine == [kind |-> "blank"]

RECURSIVE RenderFrom(_, _)
\* stdout.split('\n') of the listing of entries n.. of the log
RenderFrom(log, n) ==
  IF n > Len(log) THEN <<>>
  ELSE <<CommitLine(n, log[n])>>
       \o (IF log[n].stat.present THEN <<StatLine(log[n]), BlankLine>> ELSE <<>>)
       \o RenderFrom(log, n + 1)

RECURSIVE InsertDesc(_, _)
\* x placed after every element whose sort_date is not smaller
InsertDesc(x, sorted) ==
  IF sorted = <<>> THEN <<x>>
  ELSE IF Head(sorted).sort_date >= x.sort_date
       THEN <<Head(sorted)>> \o InsertDesc(x, Tail(sorted))
       ELSE <<x>> \o sorted

RECURSIVE SortDesc(_)
\* sorted(commits, key=sort_date, reverse=True): stable, line 261
SortDesc(list) ==
  IF list = <<>> THEN <<>>
  ELSE InsertDesc(Last(list), SortDesc(SubSeq(list, 1, Len(list) - 1)))

\* del c['sort_date'], lines 262-263
DropSortDate(c) ==
  [hash |-> c.hash, message |-> c.message, date |-> c.date, lines |-> c.lines,
   type |-> c.type]

LogInit ==
  /\ log_pc = "start"
  /\ \E len \in 0..MaxLogCommits : git_log \in [1..len -> LogEntries]
  /\ stdout_lines = <<>> /\ ln = 0
  /\ current_hash = None /\ current_msg = None /\ current_dt = None
  /\ parsed = <<>> /\ returned = None

\* lines 217-227
LogRun ==
  /\ log_pc = "start"
  /\ \E code \in ExitCodes :
       IF code # 0
       THEN /\ returned' = <<>>
            /\ log_pc' = "failed"
            /\ UNCHANGED <<stdout_lines, ln>>
       ELSE /\ stdout_lines' = RenderFrom(git_log, 1)
            /\ ln' = 1
            /\ log_pc' = "lines"
            /\ returned' = returned
  /\ UNCHANGED <<git_log, current_hash, current_msg, current_dt, parsed>>
  /\ UNCHANGED <<pipeVars, scanVars, deltaVars>>

\* lines 229-259: one line of the output
LogLine ==
  /\ log_pc = "lines"
  /\ ln <= Len(stdout_lines)
  /\ LET line == stdout_lines[ln]
     IN  IF line.kind = "commit"
         THEN /\ current_hash' = line.hash
              /\ current_dt' = line.date
              /\ current_msg' = Truncate80(line.subject)
              /\ parsed' = parsed
         ELSE IF line.kind = "stat" /\ current_hash # None
         THEN /\ parsed' = Append(parsed,
                             [hash |-> current_hash, message |-> current_msg,
                              date |-> FormatDate(current_dt),
                              sort_date |-> current_dt,
                              lines |-> line.insertions + line.deletions,
                              type |-> classify_commit(current_msg)])
              /\ current_hash' = None
              /\ UNCHANGED <<current_dt, current_msg>>
         ELSE UNCHANGED <<current_hash, current_dt, current_msg, parsed>>
  /\ ln' = ln + 1
  /\ UNCHANGED <<log_pc, git_log, stdout_lines, returned>>
  /\ UNCHANGED <<pipeVars, scanVars, deltaVars>>

\* lines 261-264
LogReturn ==
  /\ log_pc = "lines"
  /\ ln > Len(stdout_lines)
  /\ LET sorted == SortDesc(parsed)
     IN  returned' = [k \in 1..Len(sorted) |-> DropSortDate(sorted[k])]
  /\ log_pc' = "returned"
  /\ UNCHANGED <<git_log, stdout_lines, ln, current_hash, current_msg,
                 current_dt, parsed>>
  /\ UNCHANGED <<pipeVars, scanVars, deltaVars>>

InitLog == PipeIdle /\ ScanIdle /\ DeltaIdle /\ LogInit

NextLog ==
  \/ LogRun
  \/ LogLine
  \/ LogReturn

SpecLog == InitLog /\ [][NextLog]_vars

(***************************************************************************)
(* Properties of get_recent_commits, checked under SpecLog.                *)
(***************************************************************************)
LinesOf(e) == IF e.stat.present THEN e.stat.insertions + e.stat.deletions ELSE 0

\* C10: the list returned has one entry for every commit of the parsed log,
\* newest first, with lines = insertions + deletions; a commit without a
\* shortstat line is returned with lines = 0, and hash, date and message of
\* an entry are those of one commit.
C10_EveryCommitListed ==
  log_pc = "returned" =>
    /\ Len(returned) = Len(git_log)
    /\ \A n \in 1..Len(git_log) :
         \E k \in 1..Len(returned) :
           /\ returned[k].hash = Hash(n)
           /\ returned[k].lines = LinesOf(git_log[n])
           /\ returned[k].date = FormatDate(git_log[n].date)
           /\ returned[k].message = Truncate80(Subject(n, git_log[n].len))
    /\ \A k \in 1..(Len(returned) - 1) :
         returned[k].date.b_d_Y >= returned[k+1].date.b_d_Y

====
